---- MODULE Spec2Model ----
(***************************************************************************)
(* ApiDeamon (src/ApiDeamon.java): the startup sequence of main, the agent *)
(* tasks scheduled on the agent pool, the response-execution pool and the  *)
(* shutdown hook with its drain loop, as one state machine.  The threads   *)
(* are the main thread, one task per agent, the response-pool tasks, the   *)
(* shutdown-hook thread, and the environment (broker, HTTP clients, the    *)
(* termination signal).                                                    *)
(* SocketService (frontend/static/js/services/socket.service.js, kept as   *)
(* src/unnamed/part_005): the browser client's Socket.IO wrapper, with the *)
(* events of its socket and the calls of its public API.                   *)
(***************************************************************************)
EXTENDS Integers, FiniteSets, Sequences, TLC

\* ---------------------------------------------------------------- bounds
\* ApiConfig.getAgentThreadCount(): size of the agent pool (configuration).
AgentThreadCount == 2
\* Messages the producers (HTTP requests, other daemons) put on the topics.
MaxProduced == 1
\* ApiConfig.getThreadQueueSize(): size of the response pool (configuration).
ThreadQueueSize == 1

\* Segments of the longest request path considered.
MaxPathLen == 2
\* Reconnect timeouts of the SocketService that are pending at one time.
MaxPendingTimers == 2

\* ------------------------------------------------------------- constants
\* The agents that runAgents schedules, in the order of its execute calls.
Agents == <<"sync", "search", "brand">>
AgentSet == {Agents[i] : i \in 1..Len(Agents)}

\* The topics whose backlog controlTopicMsgCountInBacklog reads, in the
\* order of its && chain.
GatedTopics == <<"searchBrand", "search", "statusReport", "sync">>
TopicSet == {GatedTopics[i] : i \in 1..Len(GatedTopics)}

\* The topic each agent's ConsumerProvider is built for.
TopicOf(a) ==
    CASE a = "sync" -> "sync"
      [] a = "search" -> "search"
      [] a = "brand" -> "searchBrand"

\* AppConfig.getUiConfig('maxReconnectAttempts'): config.js, line 35.
maxReconnectAttempts == 5

\* The session ids that setSessionId is called with.
SessionIds == {"s1", "s2"}

\* The first path segments of the patterns "/consent/*" ... "/government/*"
\* that addRateLimitToPaths maps the DoSFilter to (lines 301-312).
FilterPrefixes ==
    {"consent", "kv", "oauth", "report", "sp", "retailers", "brands", "sps",
     "recipients", "integrator", "public", "government"}

\* Request paths, as sequences of segments: "/" is <<>>, "/kv/x" is
\* <<"kv", "x">>.
PathSegments == {"consent", "government", "health", "x"}

RECURSIVE PathsOfLength(_)
PathsOfLength(n) ==
    IF n = 0 THEN {<<>>}
    ELSE {Append(p, g) : p \in PathsOfLength(n - 1), g \in PathSegments}

RequestPaths == UNION {PathsOfLength(n) : n \in 0..MaxPathLen}

\* IYS_PATH = "/*" (lines 65, 276): the dispatch servlet is mapped to every
\* path of the context.
ServletMatches(path) == TRUE

\* A path mapping "/prefix/*" matches "/prefix" and every path below it.
PrefixMatches(prefix, path) == Len(path) >= 1 /\ path[1] = prefix

\* The request passes the DoSFilter before it reaches the servlet.
FilterMatches(path) == \E prefix \in FilterPrefixes : PrefixMatches(prefix, path)

VARIABLES
    mainPc,          \* position of the main thread
    hookRegistered,  \* Runtime.addShutdownHook has been called
    session,         \* cryptographer.hasSession()
    isRunning,       \* ApiDeamon.isRunning
    contextHandler,  \* ApiDeamon.contextHandler: "null", "created", "shutdown"
    listening,       \* server.start() has returned: the port is bound
    agentPc,         \* position of each agent's task on the agent pool
    agentConsumer,   \* BaseAgent.consumer of each agent: "unset", "null", "handle"
    consumers,       \* handles registered in the GlobalContext
    queue,           \* per topic: messages not yet delivered to a consumer
    pool,            \* per agent: tasks of the response pool, queued and running
    poolState,       \* responseThreadPool: "running", "shutdown", "stopped"
    hookPc,          \* position of the shutdown-hook thread
    isControlledMsgCounts, \* the hook's local of that name
    pollIdx,         \* index in GatedTopics of the next backlog read of this poll
    lastPoll,        \* per topic: the count the current poll read, -1 if none
    produced,        \* messages produced so far (bounded by MaxProduced)
    hist,            \* history record of the hook's runs
    socket,          \* SocketService.socket: "null", "disconnected", "connected"
    sessionId,       \* SocketService.sessionId: "null" or a session id
    reconnectAttempts, \* SocketService.reconnectAttempts
    reconnectTimers, \* pending timeouts set by tryReconnect
    triggered,       \* events the latest call or handler passed to triggerEvent
    emitted,         \* events the latest call or handler emitted on the socket
    returned,        \* the latest public call of the SocketService and its result
    launcher,        \* the BackendLauncher of electron/backend-launcher.js
    eventUtils,      \* the EventUtils of utils/event.utils.js
    loadingPage,     \* the LoadingPage of loading.js
    script           \* the page state of script.js

daemonVars == <<mainPc, hookRegistered, session, isRunning, contextHandler,
                listening, agentPc, agentConsumer, consumers, queue, pool,
                poolState, hookPc, isControlledMsgCounts, pollIdx, lastPoll,
                produced, hist>>

socketVars == <<socket, sessionId, reconnectAttempts, reconnectTimers,
                triggered, emitted, returned>>

clientVars == <<socketVars, launcher, eventUtils, loadingPage, script>>

\* Everything but the SocketService.
outsideSocket == <<daemonVars, launcher, eventUtils, loadingPage, script>>

\* Everything but the BackendLauncher.
outsideLauncher == <<daemonVars, socketVars, eventUtils, loadingPage, script>>

\* Everything but the EventUtils.
outsideEventUtils == <<daemonVars, socketVars, launcher, loadingPage, script>>

\* Everything but script.js.
outsideScript == <<daemonVars, socketVars, launcher, eventUtils, loadingPage>>

\* Everything but the LoadingPage.
outsideLoadingPage == <<daemonVars, socketVars, launcher, eventUtils, script>>

vars == <<daemonVars, clientVars>>

mainVars == <<mainPc, hookRegistered, contextHandler, listening>>
agentVars == <<agentPc, agentConsumer, consumers>>
brokerVars == <<queue, produced>>
poolVars == <<pool, poolState>>
hookVars == <<hookPc, isControlledMsgCounts, pollIdx, lastPoll>>

\* ----------------------------------------------------------------- helpers
\* The JVM has halted: the shutdown hook has returned.  Its other threads
\* stay halted when the hook's body is invoked once more.
Exited == hookPc = "done" \/ hist.rerun
Alive == ~Exited

\* The gateway admits requests to the dispatch layer: the port is bound and
\* the servlet context has not been shut down.
Serving == listening /\ contextHandler # "shutdown"

\* No topic has been read in the current poll.
Unread == [t \in TopicSet |-> -1]

NoTasks == [a \in AgentSet |-> [queued |-> 0, running |-> 0]]

Outstanding(a) == pool[a].queued + pool[a].running

\* The sum of f[x] over the x in S.
RECURSIVE SumOver(_, _)
SumOver(f, S) ==
    IF S = {} THEN 0
    ELSE LET x == CHOOSE y \in S : TRUE IN f[x] + SumOver(f, S \ {x})

TotalOutstanding == SumOver([a \in AgentSet |-> Outstanding(a)], AgentSet)

\* Messages an agent holds between receive() and the submission to the pool.
Held(a) == IF agentPc[a] = "submit" THEN 1 ELSE 0

AgentsOf(t) == {a \in AgentSet : TopicOf(a) = t}

BacklogOfAgent(a) == Held(a) + Outstanding(a)

\* What the broker reports for a topic: the messages not yet acknowledged.
Backlog(t) == queue[t] + SumOver([a \in AgentSet |-> BacklogOfAgent(a)], AgentsOf(t))

\* No public call of the SocketService is the latest step.
NoCall == [call |-> "none", value |-> "none"]

\* The BackendLauncher after its constructor, lines 7-12, with the child
\* processes it has spawned: process is the number of the child that
\* this.process refers to (0 for null), spawned counts the spawn calls that
\* returned a child, live holds the children that have not closed, killed
\* those that stop() has signalled.
NewLauncher ==
    [process |-> 0, isRunning |-> FALSE, spawned |-> 0, live |-> {},
     killed |-> {}, call |-> "none", value |-> "none"]

\* Event types that the components subscribe to.
EventTypes == {"socketStatus", "sessionInitialized"}

\* Callbacks, told apart by identity (line 45); g throws when called.
Callbacks == {"f", "g", "h"}

ThrowingCallbacks == {"g"}

\* EventUtils when the script has run, line 8: observers has no property
\* (defined is empty); invoked lists the callbacks the latest publish
\* called, errors counts the throws it logged.
NewEventUtils ==
    [observers |-> [t \in EventTypes |-> <<>>], defined |-> {},
     invoked |-> <<>>, errors |-> 0,
     call |-> "none", eventType |-> "none", callback |-> "none"]

\* LoadingPage when the script has run, lines 19-31, before init().
\* socket is the state of the socket that the variable socket refers to;
\* connectionTimer says whether the timer that connectionTimeoutId names is
\* pending and staleConnectionTimers counts the pending timers whose id was
\* overwritten, and so for the session and model timers; fetches counts the
\* POST /api/sessions requests in flight; connection, session and model are
\* the statuses shown; redirect follows window.location.href = '/';
\* reinvocations counts the calls of line 66 since init() or retry();
\* everConnected and everJoined record that the 'connect' handler and the
\* success branch of the 'session_joined' handler have run.
NewLoadingPage ==
    [started |-> FALSE, socket |-> "null", reconnectAttempts |-> 0,
     connectionTimer |-> FALSE, staleConnectionTimers |-> 0,
     sessionTimer |-> FALSE, staleSessionTimers |-> 0,
     modelTimer |-> FALSE, staleModelTimers |-> 0,
     fetches |-> 0,
     connection |-> "waiting", session |-> "waiting", model |-> "waiting",
     errorShown |-> FALSE, redirect |-> "none", reinvocations |-> 0,
     everConnected |-> FALSE, everJoined |-> FALSE, handler |-> "none"]

\* script.js when it has run, lines 2-8, before DOMContentLoaded: socket
\* is the state of the socket that the variable socket refers to, input the
\* value of the message input, reconnectTimers the pending timers of line
\* 140, emitted what the latest handler emitted on the socket.
NewScript ==
    [socket |-> "undefined", sessionId |-> "undefined", isProcessing |-> FALSE,
     currentStreamingMessage |-> "null", reconnectAttempts |-> 0,
     reconnectTimers |-> 0, input |-> <<>>, emitted |-> <<>>,
     started |-> FALSE, handler |-> "none"]

\* ------------------------------------------------------------------- Init
\* The state after the static initialisers: isRunning = getRunningMode() =
\* true, both pools created, contextHandler null.  Whether the cryptographer
\* obtained a session is an input.
NoHistory ==
    [await |-> "none",          \* how awaitTermination ended
     forced |-> FALSE,          \* shutdownNow interrupted or discarded a task
     closeCalls |-> 0,          \* calls of closeSession
     late |-> {},               \* agents holding a message received while
                                \* isRunning was false
     threw |-> FALSE,           \* the hook's last broker call threw
     rerun |-> FALSE]           \* the hook's body has been invoked again

Init ==
    /\ mainPc = "addHook"
    /\ hookRegistered = FALSE
    /\ session \in BOOLEAN
    /\ isRunning = TRUE
    /\ contextHandler = "null"
    /\ listening = FALSE
    /\ agentPc = [a \in AgentSet |-> "new"]
    /\ agentConsumer = [a \in AgentSet |-> "unset"]
    /\ consumers = {}
    /\ queue = [t \in TopicSet |-> 0]
    /\ pool = NoTasks
    /\ poolState = "running"
    /\ hookPc = "idle"
    /\ isControlledMsgCounts = FALSE
    /\ pollIdx = 1
    /\ lastPoll = Unread
    /\ produced = 0
    /\ hist = NoHistory
    /\ socket = "null"
    /\ sessionId = "null"
    /\ reconnectAttempts = 0
    /\ reconnectTimers = 0
    /\ triggered = <<>>
    /\ emitted = <<>>
    /\ returned = NoCall
    /\ launcher = NewLauncher
    /\ eventUtils = NewEventUtils
    /\ loadingPage = NewLoadingPage
    /\ script = NewScript

\* ------------------------------------------------------------- terminator
\* IysTerminator.quit: the process terminates with a non-zero outcome.  The
\* JVM's exit runs the registered shutdown hook (once), and the calling
\* thread never returns from it.
IysTerminatorQuit ==
    /\ hookPc' = IF hookPc = "idle" /\ hookRegistered THEN "setFlag" ELSE hookPc
    /\ UNCHANGED <<isControlledMsgCounts, pollIdx, lastPoll, hist>>

\* The terminator has been called: by main for a missing session (line 203),
\* a Throwable in runAgents (line 251) or a failed server start (line 132),
\* or by an agent task for a failed subscription (line 262).
MainQuitPcs == {"quitNoSession", "quitRunAgents", "quitServerStart"}

TerminatorInvoked ==
    mainPc \in MainQuitPcs \/ \E a \in AgentSet : agentPc[a] = "quit"

\* ------------------------------------------------------------ main thread
\* main, line 85: addShutDownHookProcess().
MainAddShutDownHook ==
    /\ Alive /\ mainPc = "addHook"
    /\ hookRegistered' = TRUE
    /\ mainPc' = "checkSession"
    /\ UNCHANGED <<session, isRunning, contextHandler, listening, agentVars,
                   brokerVars, poolVars, hookVars, hist>>
    /\ UNCHANGED clientVars

\* Mutant of RunAgentsCheckSession: the terminator is called, but runAgents
\* goes on as if the call had returned.
RunAgentsCheckSessionFallsThrough ==
    /\ Alive /\ mainPc = "checkSession"
    /\ mainPc' = "buildConsumers"
    /\ IF ~session
       THEN IysTerminatorQuit
       ELSE UNCHANGED <<hookVars, hist>>
    /\ UNCHANGED <<hookRegistered, session, isRunning, contextHandler, listening,
                   agentVars, brokerVars, poolVars>>
    /\ UNCHANGED clientVars

\* runAgents, lines 200-204: the fail-fast check of the crypto session.
RunAgentsCheckSession ==
    /\ Alive /\ mainPc = "checkSession"
    /\ IF ~session
       THEN /\ mainPc' = "quitNoSession"
            /\ IysTerminatorQuit
       ELSE /\ mainPc' = "buildConsumers"
            /\ UNCHANGED <<hookVars, hist>>
    /\ UNCHANGED <<hookRegistered, session, isRunning, contextHandler, listening,
                   agentVars, brokerVars, poolVars>>
    /\ UNCHANGED clientVars

\* runAgents, lines 205-224: the three consumer builders; a Throwable is
\* caught at line 249 and ends in the terminator.
RunAgentsBuildConsumers ==
    /\ Alive /\ mainPc = "buildConsumers"
    /\ \/ /\ mainPc' = "execute1"
          /\ UNCHANGED <<hookVars, hist>>
       \/ /\ mainPc' = "quitRunAgents"
          /\ IysTerminatorQuit
    /\ UNCHANGED <<hookRegistered, session, isRunning, contextHandler, listening,
                   agentVars, brokerVars, poolVars>>
    /\ UNCHANGED clientVars

ExecutePc == <<"execute1", "execute2", "execute3">>

AfterExecute(i) == IF i < Len(Agents) THEN ExecutePc[i + 1] ELSE "prepareContext"

\* runAgents, lines 227-247: executorService.execute of the i-th agent's task.
RunAgentsExecute(i) ==
    /\ Alive /\ mainPc = ExecutePc[i]
    /\ agentPc' = [agentPc EXCEPT ![Agents[i]] = "queued"]
    /\ mainPc' = AfterExecute(i)
    /\ UNCHANGED <<hookRegistered, session, isRunning, contextHandler, listening,
                   agentConsumer, consumers, brokerVars, poolVars, hookVars, hist>>
    /\ UNCHANGED clientVars

\* main, lines 110-126: the server object and the servlet context are built.
MainPrepareContext ==
    /\ Alive /\ mainPc = "prepareContext"
    /\ contextHandler' = "created"
    /\ mainPc' = "serverStart"
    /\ UNCHANGED <<hookRegistered, session, isRunning, listening, agentVars,
                   brokerVars, poolVars, hookVars, hist>>
    /\ UNCHANGED clientVars

\* main, lines 127-133: server.start() binds the port, or throws and the
\* catch block calls the terminator.
MainServerStart ==
    /\ Alive /\ mainPc = "serverStart"
    /\ \/ /\ listening' = TRUE
          /\ mainPc' = "join"
          /\ UNCHANGED <<hookVars, hist>>
       \/ /\ mainPc' = "quitServerStart"
          /\ IysTerminatorQuit
          /\ UNCHANGED listening
    /\ UNCHANGED <<hookRegistered, session, isRunning, contextHandler, agentVars,
                   brokerVars, poolVars>>
    /\ UNCHANGED clientVars

\* The termination signal: the JVM starts its shutdown sequence, which runs
\* the registered hook.
TerminationSignal ==
    /\ Alive /\ hookRegistered /\ hookPc = "idle"
    /\ hookPc' = "setFlag"
    /\ UNCHANGED <<mainPc, hookRegistered, session, isRunning, contextHandler,
                   listening, agentVars, brokerVars, poolVars,
                   isControlledMsgCounts, pollIdx, lastPoll, hist>>
    /\ UNCHANGED clientVars

\* ------------------------------------------------------------ agent tasks
AgentIndex(a) == CHOOSE i \in 1..Len(Agents) : Agents[i] = a

\* The task would keep its worker for as long as the agent consumes.
OnWorkerWithLoop(a) ==
    agentPc[a] \in {"subscribe", "setAgent", "register", "loop", "receive",
                    "submit", "quit"}

\* Lines 227-231, 234-239, 242-246: the task handed to the agent pool ends
\* when setConsumer returns, so it occupies a worker from its start to the
\* registration of line 265; a task blocked in the terminator keeps its
\* worker.  The consumption that follows does not run on the agent pool.
OnWorker(a) ==
    agentPc[a] \in {"subscribe", "setAgent", "register", "quit"}

BusyWorkers == Cardinality({a \in AgentSet : OnWorker(a)})

\* Executors.newFixedThreadPool(agentThreadCount), line 71: a free worker
\* takes the head of the FIFO queue.  Lines 228-229, 235-237, 243-244: the
\* agent is constructed and consumeBuilder is called.
AgentTaskStart(a) ==
    /\ Alive /\ agentPc[a] = "queued"
    /\ BusyWorkers < AgentThreadCount
    /\ \A i \in 1..(AgentIndex(a) - 1) : agentPc[Agents[i]] # "queued"
    /\ agentPc' = [agentPc EXCEPT ![a] = "subscribe"]
    /\ UNCHANGED <<mainVars, session, isRunning, agentConsumer, consumers,
                   brokerVars, poolVars, hookVars, hist>>
    /\ UNCHANGED clientVars

\* setConsumer, lines 257-263: subscribe(); a PulsarClientException is
\* logged and the terminator is called.
SetConsumerSubscribe(a) ==
    /\ Alive /\ agentPc[a] = "subscribe"
    /\ \/ /\ agentPc' = [agentPc EXCEPT ![a] = "setAgent"]
          /\ UNCHANGED <<hookVars, hist>>
       \/ /\ agentPc' = [agentPc EXCEPT ![a] = "quit"]
          /\ IysTerminatorQuit
    /\ UNCHANGED <<mainVars, session, isRunning, agentConsumer, consumers,
                   brokerVars, poolVars>>
    /\ UNCHANGED clientVars

\* setConsumer, line 264: the agent is given the consumer.
SetConsumerAgent(a) ==
    /\ Alive /\ agentPc[a] = "setAgent"
    /\ agentConsumer' = [agentConsumer EXCEPT ![a] = "handle"]
    /\ agentPc' = [agentPc EXCEPT ![a] = "register"]
    /\ UNCHANGED <<mainVars, session, isRunning, consumers, brokerVars,
                   poolVars, hookVars, hist>>
    /\ UNCHANGED clientVars

\* setConsumer, line 265: the consumer is registered in the global context.
SetConsumerGlobalContext(a) ==
    /\ Alive /\ agentPc[a] = "register"
    /\ consumers' = consumers \cup {a}
    /\ agentPc' = [agentPc EXCEPT ![a] = "loop"]
    /\ UNCHANGED <<mainVars, session, isRunning, agentConsumer, brokerVars,
                   poolVars, hookVars, hist>>
    /\ UNCHANGED clientVars

\* The agent's run loop: its condition, read before each receive().
AgentLoopCondition(a) ==
    /\ Alive /\ agentPc[a] = "loop"
    /\ agentPc' = [agentPc EXCEPT ![a] = IF isRunning THEN "receive" ELSE "exited"]
    /\ UNCHANGED <<mainVars, session, isRunning, agentConsumer, consumers,
                   brokerVars, poolVars, hookVars, hist>>
    /\ UNCHANGED clientVars

\* The agent's run loop: consumer.receive() blocks until the topic delivers.
AgentReceive(a) ==
    /\ Alive /\ agentPc[a] = "receive"
    /\ queue[TopicOf(a)] > 0
    /\ queue' = [queue EXCEPT ![TopicOf(a)] = @ - 1]
    /\ agentPc' = [agentPc EXCEPT ![a] = "submit"]
    /\ hist' = [hist EXCEPT !.late = IF isRunning THEN @ ELSE @ \cup {a}]
    /\ UNCHANGED <<mainVars, session, isRunning, agentConsumer, consumers,
                   produced, poolVars, hookVars>>
    /\ UNCHANGED clientVars

\* The agent's run loop: the processing step is submitted to the response
\* pool; a pool that has been shut down rejects it, which ends the loop with
\* the message unacknowledged.
AgentSubmit(a) ==
    /\ Alive /\ agentPc[a] = "submit"
    /\ IF poolState = "running"
       THEN /\ pool' = [pool EXCEPT ![a].queued = @ + 1]
            /\ agentPc' = [agentPc EXCEPT ![a] = "loop"]
            /\ UNCHANGED queue
       ELSE /\ agentPc' = [agentPc EXCEPT ![a] = "crashed"]
            /\ queue' = [queue EXCEPT ![TopicOf(a)] = @ + 1]
            /\ UNCHANGED pool
    /\ hist' = [hist EXCEPT !.late = @ \ {a}]
    /\ UNCHANGED <<mainVars, session, isRunning, agentConsumer, consumers,
                   produced, poolState, hookVars>>
    /\ UNCHANGED clientVars

\* ------------------------------------------------------- uncaught errors
\* The place at which an agent's task ends with an uncaught runtime error:
\* in its run loop, handling the message that receive() returned.
ThrowingPcs == {"submit"}

\* Mutant of AgentUncaughtError: the handler ends the process, as the
\* catch blocks of runAgents and setConsumer do.
AgentUncaughtErrorQuits(a) ==
    /\ Alive /\ agentPc[a] \in ThrowingPcs
    /\ agentPc' = [agentPc EXCEPT ![a] = "crashed"]
    /\ queue' = [queue EXCEPT ![TopicOf(a)] = @ + Held(a)]
    /\ IysTerminatorQuit
    /\ UNCHANGED <<mainVars, session, isRunning, agentConsumer, consumers,
                   produced, poolVars>>
    /\ UNCHANGED clientVars

\* Line 84: a runtime error that escapes an agent's task reaches the default
\* uncaught-exception handler, which logs it; the worker thread ends, and a
\* message the agent held stays unacknowledged.  The agent is left as the
\* rejected submission of AgentSubmit, a runtime error as well, leaves it.
AgentUncaughtError(a) ==
    /\ Alive /\ agentPc[a] \in ThrowingPcs
    /\ agentPc' = [agentPc EXCEPT ![a] = "crashed"]
    /\ queue' = [queue EXCEPT ![TopicOf(a)] = @ + Held(a)]
    /\ hist' = [hist EXCEPT !.late = @ \ {a}]
    /\ UNCHANGED <<mainVars, session, isRunning, agentConsumer, consumers,
                   produced, poolVars, hookVars>>
    /\ UNCHANGED clientVars

\* ---------------------------------------------------------- response pool
RunningOf(a) == pool[a].running

\* Executors.newFixedThreadPool(threadQueueSize), line 73: a free thread of
\* the response pool takes a queued task.
TaskStart(a) ==
    /\ Alive /\ pool[a].queued > 0
    /\ SumOver([b \in AgentSet |-> RunningOf(b)], AgentSet) < ThreadQueueSize
    /\ pool' = [pool EXCEPT ![a].queued = @ - 1, ![a].running = @ + 1]
    /\ UNCHANGED <<mainVars, session, isRunning, agentVars, brokerVars,
                   poolState, hookVars, hist>>
    /\ UNCHANGED clientVars

\* A task handles its message, responds and acknowledges it.
TaskComplete(a) ==
    /\ Alive /\ pool[a].running > 0
    /\ pool' = [pool EXCEPT ![a].running = @ - 1]
    /\ UNCHANGED <<mainVars, session, isRunning, agentVars, brokerVars,
                   poolState, hookVars, hist>>
    /\ UNCHANGED clientVars

\* A task fails: the error is logged and the message stays unacknowledged.
TaskFail(a) ==
    /\ Alive /\ pool[a].running > 0
    /\ pool' = [pool EXCEPT ![a].running = @ - 1]
    /\ queue' = [queue EXCEPT ![TopicOf(a)] = @ + 1]
    /\ UNCHANGED <<mainVars, session, isRunning, agentVars, produced,
                   poolState, hookVars, hist>>
    /\ UNCHANGED clientVars

\* ------------------------------------------------- broker and HTTP clients
\* Another daemon publishes a message on a topic.
Produce(t) ==
    /\ Alive /\ produced < MaxProduced
    /\ queue' = [queue EXCEPT ![t] = @ + 1]
    /\ produced' = produced + 1
    /\ UNCHANGED <<mainVars, session, isRunning, agentVars, poolVars,
                   hookVars, hist>>
    /\ UNCHANGED clientVars

\* A request reaches the dispatch servlet of the started server (lines 116,
\* 127) and its handler publishes a message on a topic.
HttpRequest(t) ==
    /\ Alive /\ Serving /\ produced < MaxProduced
    /\ queue' = [queue EXCEPT ![t] = @ + 1]
    /\ produced' = produced + 1
    /\ UNCHANGED <<mainVars, session, isRunning, agentVars, poolVars, hookVars,
                   hist>>
    /\ UNCHANGED clientVars

\* A topic that no agent of this daemon consumes is consumed elsewhere.
ExternalConsume(t) ==
    /\ Alive /\ AgentsOf(t) = {} /\ queue[t] > 0
    /\ queue' = [queue EXCEPT ![t] = @ - 1]
    /\ UNCHANGED <<mainVars, session, isRunning, agentVars, produced, poolVars,
                   hookVars, hist>>
    /\ UNCHANGED clientVars

\* ---------------------------------------------------------- shutdown hook
\* Mutant of HookSetNotRunning: the response pool is shut down on entry,
\* before any backlog has been read.
HookSetNotRunningShutsPool ==
    /\ hookPc = "setFlag"
    /\ isRunning' = FALSE
    /\ isControlledMsgCounts' = FALSE
    /\ hookPc' = "checkContext"
    /\ poolState' = "shutdown"
    /\ UNCHANGED <<mainVars, session, agentVars, brokerVars, pool, pollIdx,
                   lastPoll, hist>>
    /\ UNCHANGED clientVars

\* Lines 146-147: isRunning = false; isControlledMsgCounts = false.
HookSetNotRunning ==
    /\ hookPc = "setFlag"
    /\ isRunning' = FALSE
    /\ isControlledMsgCounts' = FALSE
    /\ hookPc' = "checkContext"
    /\ UNCHANGED <<mainVars, session, agentVars, brokerVars, poolVars, pollIdx,
                   lastPoll, hist>>
    /\ UNCHANGED clientVars

\* Lines 148-150: if (contextHandler != null) contextHandler.shutdown().
HookContextShutdown ==
    /\ hookPc = "checkContext"
    /\ contextHandler' = IF contextHandler # "null" THEN "shutdown" ELSE "null"
    /\ hookPc' = "poll"
    /\ pollIdx' = 1
    /\ UNCHANGED <<mainPc, hookRegistered, listening, session, isRunning,
                   agentVars, brokerVars, poolVars, isControlledMsgCounts,
                   lastPoll, hist>>
    /\ UNCHANGED clientVars

\* Mutant of BacklogIsEmpty: the comparison is off by one.
BacklogIsEmptyOffByOne(count) == count <= 1

\* controlTopicMsgCountInBacklog, lines 183-190: the test each count of the
\* && chain must pass.
BacklogIsEmpty(count) == count = 0

\* Lines 152-156 with lines 183-190: one getMsgCountInCounter call of the
\* current poll.  A count that is not zero ends the poll with false and the
\* while loop polls again; the last count being zero ends it with true and
\* line 157 sets isControlledMsgCounts.
HookPollRead ==
    /\ hookPc = "poll"
    /\ LET t == GatedTopics[pollIdx]
           count == Backlog(t)
       IN /\ IF ~BacklogIsEmpty(count)
             THEN /\ pollIdx' = 1
                  /\ lastPoll' = Unread
                  /\ UNCHANGED <<hookPc, isControlledMsgCounts>>
             ELSE IF pollIdx < Len(GatedTopics)
             THEN /\ pollIdx' = pollIdx + 1
                  /\ lastPoll' = [lastPoll EXCEPT ![t] = count]
                  /\ UNCHANGED <<hookPc, isControlledMsgCounts>>
             ELSE /\ pollIdx' = 1
                  /\ lastPoll' = [lastPoll EXCEPT ![t] = count]
                  /\ isControlledMsgCounts' = TRUE
                  /\ hookPc' = "poolShutdown"
    /\ hist' = [hist EXCEPT !.threw = FALSE]
    /\ UNCHANGED <<mainVars, session, isRunning, agentVars, brokerVars, poolVars>>
    /\ UNCHANGED clientVars

\* Mutant of HookPollThrows: the exception is caught outside the while loop,
\* so a failed poll ends the hook.
HookPollThrowsEndsHook ==
    /\ hookPc = "poll"
    /\ hookPc' = "done"
    /\ UNCHANGED <<mainVars, session, isRunning, agentVars, brokerVars, poolVars,
                   isControlledMsgCounts, pollIdx, lastPoll, hist>>
    /\ UNCHANGED clientVars

\* Mutant of HookPollThrows: the catch block takes the failed poll for a
\* drained backlog.
HookPollThrowsLeavesDraining ==
    /\ hookPc = "poll"
    /\ lastPoll' = Unread
    /\ pollIdx' = 1
    /\ isControlledMsgCounts' = TRUE
    /\ hookPc' = "poolShutdown"
    /\ hist' = [hist EXCEPT !.threw = TRUE]
    /\ UNCHANGED <<mainVars, session, isRunning, agentVars, brokerVars, poolVars>>
    /\ UNCHANGED clientVars

\* Lines 167-169: getMsgCountInCounter throws; the exception is logged and
\* the while loop polls again.
HookPollThrows ==
    /\ hookPc = "poll"
    /\ lastPoll' = Unread
    /\ pollIdx' = 1
    /\ hist' = [hist EXCEPT !.threw = TRUE]
    /\ UNCHANGED <<mainVars, session, isRunning, agentVars, brokerVars, poolVars,
                   hookPc, isControlledMsgCounts>>
    /\ UNCHANGED clientVars

\* shutdownNow(): the queued tasks are discarded (their messages stay
\* unacknowledged) and the running ones are interrupted.
ShutdownNowPool == [a \in AgentSet |-> [queued |-> 0, running |-> pool[a].running]]

ShutdownNowQueue ==
    [t \in TopicSet |->
        queue[t] + SumOver([a \in AgentSet |-> pool[a].queued], AgentsOf(t))]

\* Mutant of AwaitTerminationShutdown: line 159 is left out, as line 161
\* is, and the hook goes on to the session with the pool untouched.
AwaitTerminationLeftOut ==
    /\ hookPc = "poolShutdown"
    /\ hookPc' = "hasSession"
    /\ UNCHANGED <<mainVars, session, isRunning, agentVars, brokerVars, poolVars,
                   isControlledMsgCounts, pollIdx, lastPoll, hist>>
    /\ UNCHANGED clientVars

\* awaitTerminationAfterShutdown, line 343: executorService.shutdown().
AwaitTerminationShutdown ==
    /\ hookPc = "poolShutdown"
    /\ poolState' = IF poolState = "running" THEN "shutdown" ELSE poolState
    /\ hookPc' = "await"
    /\ UNCHANGED <<mainVars, session, isRunning, agentVars, brokerVars, pool,
                   isControlledMsgCounts, pollIdx, lastPoll, hist>>
    /\ UNCHANGED clientVars

\* Mutant of AwaitTerminationWait: line 346 is missing, the wait that timed
\* out is not followed by shutdownNow().
AwaitTerminationWaitNoShutdownNow ==
    /\ hookPc = "await"
    /\ \/ /\ TotalOutstanding = 0
          /\ hist' = [hist EXCEPT !.await = "finished"]
          /\ UNCHANGED <<poolVars, queue>>
       \/ /\ TotalOutstanding > 0
          /\ hist' = [hist EXCEPT !.await = "timeout"]
          /\ UNCHANGED <<poolVars, queue>>
       \/ /\ TotalOutstanding > 0
          /\ hist' = [hist EXCEPT !.await = "interrupted", !.forced = TRUE]
          /\ poolState' = "stopped"
          /\ pool' = ShutdownNowPool
          /\ queue' = ShutdownNowQueue
    /\ hookPc' = "hasSession"
    /\ UNCHANGED <<mainVars, session, isRunning, agentVars, produced,
                   isControlledMsgCounts, pollIdx, lastPoll>>
    /\ UNCHANGED clientVars

\* awaitTerminationAfterShutdown, lines 344-352: the bounded wait returns
\* true, without blocking, when every task has finished; with tasks
\* outstanding it blocks and returns false after 60 seconds, or the waiting
\* thread is interrupted, and then shutdownNow() is called.
AwaitTerminationWait ==
    /\ hookPc = "await"
    /\ \/ /\ TotalOutstanding = 0
          /\ hist' = [hist EXCEPT !.await = "finished"]
          /\ UNCHANGED <<poolVars, queue>>
       \/ /\ TotalOutstanding > 0
          /\ hist' = [hist EXCEPT !.await = "timeout", !.forced = TRUE]
          /\ poolState' = "stopped"
          /\ pool' = ShutdownNowPool
          /\ queue' = ShutdownNowQueue
       \/ /\ TotalOutstanding > 0
          /\ hist' = [hist EXCEPT !.await = "interrupted", !.forced = TRUE]
          /\ poolState' = "stopped"
          /\ pool' = ShutdownNowPool
          /\ queue' = ShutdownNowQueue
    /\ hookPc' = "hasSession"
    /\ UNCHANGED <<mainVars, session, isRunning, agentVars, produced,
                   isControlledMsgCounts, pollIdx, lastPoll>>
    /\ UNCHANGED clientVars

\* Mutant of HookHasSession: the test of line 162 is missing and
\* closeSession() is called whenever hasSession() does not throw.
HookHasSessionNotTested ==
    /\ hookPc = "hasSession"
    /\ \/ hookPc' = "closeSession"
       \/ hookPc' = "done"
    /\ UNCHANGED <<mainVars, session, isRunning, agentVars, brokerVars, poolVars,
                   isControlledMsgCounts, pollIdx, lastPoll, hist>>
    /\ UNCHANGED clientVars

\* Line 162: hasSession(); without a session, or when the call throws
\* (caught at line 167), the loop ends, isControlledMsgCounts being true.
HookHasSession ==
    /\ hookPc = "hasSession"
    /\ \/ hookPc' = IF session THEN "closeSession" ELSE "done"
       \/ hookPc' = "done"
    /\ UNCHANGED <<mainVars, session, isRunning, agentVars, brokerVars, poolVars,
                   isControlledMsgCounts, pollIdx, lastPoll, hist>>
    /\ UNCHANGED clientVars

\* Line 163: closeSession(); it closes the session, or throws (caught at
\* line 167).  The loop ends and the hook returns (line 171).
HookCloseSession ==
    /\ hookPc = "closeSession"
    /\ \/ session' = FALSE
       \/ UNCHANGED session
    /\ hist' = [hist EXCEPT !.closeCalls = @ + 1]
    /\ hookPc' = "done"
    /\ UNCHANGED <<mainVars, isRunning, agentVars, brokerVars, poolVars,
                   isControlledMsgCounts, pollIdx, lastPoll>>
    /\ UNCHANGED clientVars

\* Lines 143-172 invoked a second time: the body of the hook's thread is run
\* again after its first run has returned having closed the session, on the
\* state that run left.
HookRunAgain ==
    /\ hookPc = "done" /\ ~hist.rerun
    /\ hist.closeCalls = 1 /\ ~session
    /\ hookPc' = "setFlag"
    /\ lastPoll' = Unread
    /\ pollIdx' = 1
    /\ hist' = [hist EXCEPT !.rerun = TRUE]
    /\ UNCHANGED <<mainVars, session, isRunning, agentVars, brokerVars, poolVars,
                   isControlledMsgCounts>>
    /\ UNCHANGED clientVars

\* ------------------------------------------------------- SocketService
\* joinSession, lines 88-95: the join request is emitted on a connected
\* socket only.
JoinSession(sid, connected) ==
    IF connected THEN <<[event |-> "join_session", session_id |-> sid]>> ELSE <<>>

\* connect(), lines 109-118: the first call creates the socket with io(),
\* which starts connecting, and installs the handlers; a later call on a
\* socket that is not connected asks it to connect again.
SocketConnect ==
    /\ socket' = IF socket = "null" THEN "disconnected" ELSE socket
    /\ triggered' = <<>>
    /\ emitted' = <<>>
    /\ UNCHANGED <<sessionId, reconnectAttempts, reconnectTimers>>
    /\ returned' = [call |-> "connect", value |-> "none"]
    /\ UNCHANGED outsideSocket

\* disconnect(), lines 123-127.  The 'disconnect' event that follows is
\* delivered by SocketOnDisconnect.
SocketDisconnect ==
    /\ socket = "connected"
    /\ socket' = "disconnected"
    /\ triggered' = <<>>
    /\ emitted' = <<>>
    /\ UNCHANGED <<sessionId, reconnectAttempts, reconnectTimers>>
    /\ returned' = [call |-> "disconnect", value |-> "none"]
    /\ UNCHANGED outsideSocket

\* setSessionId, lines 134-137.
SetSessionId(sid) ==
    /\ sessionId' = sid
    /\ emitted' = JoinSession(sid, socket = "connected")
    /\ triggered' = <<>>
    /\ UNCHANGED <<socket, reconnectAttempts, reconnectTimers>>
    /\ returned' = [call |-> "setSessionId",
                    value |-> IF socket = "connected" THEN "true" ELSE "false"]
    /\ UNCHANGED outsideSocket

\* Mutant of SocketOnConnect: the handler without lines 26-28.
SocketOnConnectNoJoin ==
    /\ socket # "null"
    /\ socket' = "connected"
    /\ reconnectAttempts' = 0
    /\ emitted' = <<>>
    /\ triggered' = <<"connect">>
    /\ UNCHANGED <<sessionId, reconnectTimers>>
    /\ returned' = NoCall
    /\ UNCHANGED outsideSocket

\* The handler of the socket's 'connect' event, lines 21-32:
\* resetReconnectAttempts, the join of the current session, and the
\* registered 'connect' handlers.
SocketOnConnect ==
    /\ socket # "null"
    /\ socket' = "connected"
    /\ reconnectAttempts' = 0
    /\ emitted' = IF sessionId # "null" THEN JoinSession(sessionId, TRUE) ELSE <<>>
    /\ triggered' = <<"connect">>
    /\ UNCHANGED <<sessionId, reconnectTimers>>
    /\ returned' = NoCall
    /\ UNCHANGED outsideSocket

\* Mutant of SocketOnDisconnect: tryReconnect without the test of line 76.
SocketOnDisconnectAlwaysRetries ==
    /\ socket # "null"
    /\ reconnectTimers < MaxPendingTimers
    /\ socket' = "disconnected"
    /\ reconnectAttempts' = reconnectAttempts + 1
    /\ reconnectTimers' = reconnectTimers + 1
    /\ triggered' = <<"disconnect">>
    /\ emitted' = <<>>
    /\ UNCHANGED sessionId
    /\ returned' = NoCall
    /\ UNCHANGED outsideSocket

\* The handler of the socket's 'disconnect' event, lines 34-38, with
\* tryReconnect, lines 75-86: the registered 'disconnect' handlers, then
\* either one more attempt and its timeout, or the event
\* 'maxReconnectAttemptsReached'.
SocketOnDisconnect ==
    /\ socket # "null"
    /\ reconnectAttempts < maxReconnectAttempts => reconnectTimers < MaxPendingTimers
    /\ socket' = "disconnected"
    /\ IF reconnectAttempts < maxReconnectAttempts
       THEN /\ reconnectAttempts' = reconnectAttempts + 1
            /\ reconnectTimers' = reconnectTimers + 1
            /\ triggered' = <<"disconnect">>
       ELSE /\ triggered' = <<"disconnect", "maxReconnectAttemptsReached">>
            /\ UNCHANGED <<reconnectAttempts, reconnectTimers>>
    /\ emitted' = <<>>
    /\ UNCHANGED sessionId
    /\ returned' = NoCall
    /\ UNCHANGED outsideSocket

\* The timeout set at lines 80-82 expires.  Its callback calls connect(),
\* a name that is bound nowhere in the module's closure (lines 6-101: the
\* service's connect is a property of the returned object, line 109), so the
\* call throws a ReferenceError and the service's state stays as it is.
ReconnectTimeout ==
    /\ reconnectTimers > 0
    /\ reconnectTimers' = reconnectTimers - 1
    /\ triggered' = <<>>
    /\ emitted' = <<>>
    /\ UNCHANGED <<socket, sessionId, reconnectAttempts>>
    /\ returned' = NoCall
    /\ UNCHANGED outsideSocket

\* socket.emit of an event whose data carries the session id sid, by a
\* public call: lines 154-160.
EmitOn(connected, event, sid) ==
    IF connected THEN <<[event |-> event, session_id |-> sid]>> ELSE <<>>

EmitResult(connected) == IF connected THEN "true" ELSE "false"

\* The events that the components pass to emit (fileUpload.component.js).
EmitEvents == {"project_update"}

\* emit(event, data), lines 153-161.
SocketEmit(event) ==
    /\ emitted' = EmitOn(socket = "connected", event, "null")
    /\ returned' = [call |-> "emit", value |-> EmitResult(socket = "connected")]
    /\ triggered' = <<>>
    /\ UNCHANGED <<socket, sessionId, reconnectAttempts, reconnectTimers>>
    /\ UNCHANGED outsideSocket

\* Mutant of SocketSendMessage: without the test of lines 171-174.
SocketSendMessageNoSessionTest ==
    /\ emitted' = EmitOn(socket = "connected", "user_message", sessionId)
    /\ returned' = [call |-> "sendMessage", value |-> EmitResult(socket = "connected")]
    /\ triggered' = <<>>
    /\ UNCHANGED <<socket, sessionId, reconnectAttempts, reconnectTimers>>
    /\ UNCHANGED outsideSocket

\* sendMessage, lines 170-182.
SocketSendMessage ==
    /\ IF sessionId = "null"
       THEN /\ emitted' = <<>>
            /\ returned' = [call |-> "sendMessage", value |-> "false"]
       ELSE /\ emitted' = EmitOn(socket = "connected", "user_message", sessionId)
            /\ returned' = [call |-> "sendMessage",
                            value |-> EmitResult(socket = "connected")]
    /\ triggered' = <<>>
    /\ UNCHANGED <<socket, sessionId, reconnectAttempts, reconnectTimers>>
    /\ UNCHANGED outsideSocket

\* sendProjectUpdate, lines 189-197.
SocketSendProjectUpdate ==
    /\ IF sessionId = "null"
       THEN /\ emitted' = <<>>
            /\ returned' = [call |-> "sendProjectUpdate", value |-> "false"]
       ELSE /\ emitted' = EmitOn(socket = "connected", "project_update", sessionId)
            /\ returned' = [call |-> "sendProjectUpdate",
                            value |-> EmitResult(socket = "connected")]
    /\ triggered' = <<>>
    /\ UNCHANGED <<socket, sessionId, reconnectAttempts, reconnectTimers>>
    /\ UNCHANGED outsideSocket

NextSocket ==
    \/ SocketConnect
    \/ SocketDisconnect
    \/ \E sid \in SessionIds : SetSessionId(sid)
    \/ SocketOnConnect
    \/ SocketOnDisconnect
    \/ ReconnectTimeout
    \/ \E event \in EmitEvents : SocketEmit(event)
    \/ SocketSendMessage
    \/ SocketSendProjectUpdate

SpecSocket == Init /\ [][NextSocket]_vars

\* ------------------------------------------------------------------- Next
Next ==
    \/ MainAddShutDownHook
    \/ RunAgentsCheckSession
    \/ RunAgentsBuildConsumers
    \/ \E i \in 1..Len(Agents) : RunAgentsExecute(i)
    \/ MainPrepareContext
    \/ MainServerStart
    \/ TerminationSignal
    \/ \E a \in AgentSet : AgentTaskStart(a)
    \/ \E a \in AgentSet : SetConsumerSubscribe(a)
    \/ \E a \in AgentSet : SetConsumerAgent(a)
    \/ \E a \in AgentSet : SetConsumerGlobalContext(a)
    \/ \E a \in AgentSet : AgentLoopCondition(a)
    \/ \E a \in AgentSet : AgentReceive(a)
    \/ \E a \in AgentSet : AgentSubmit(a)
    \/ \E a \in AgentSet : AgentUncaughtError(a)
    \/ \E a \in AgentSet : TaskStart(a)
    \/ \E a \in AgentSet : TaskComplete(a)
    \/ \E a \in AgentSet : TaskFail(a)
    \/ \E t \in TopicSet : Produce(t)
    \/ \E t \in TopicSet : HttpRequest(t)
    \/ \E t \in TopicSet : ExternalConsume(t)
    \/ HookSetNotRunning
    \/ HookContextShutdown
    \/ HookPollRead
    \/ HookPollThrows
    \/ AwaitTerminationShutdown
    \/ AwaitTerminationWait
    \/ HookHasSession
    \/ HookCloseSession

Spec == Init /\ [][Next]_vars

\* The daemon with the shutdown protocol invoked twice.
NextRerun == Next \/ HookRunAgain

SpecRerun == Init /\ [][NextRerun]_vars

\* ------------------------------------------------------- fair scheduling
\* The steps of each thread.  A thread that can run is eventually run.
MainStep ==
    \/ MainAddShutDownHook
    \/ RunAgentsCheckSession
    \/ RunAgentsBuildConsumers
    \/ \E i \in 1..Len(Agents) : RunAgentsExecute(i)
    \/ MainPrepareContext
    \/ MainServerStart

AgentStartupStep(a) ==
    \/ AgentTaskStart(a)
    \/ SetConsumerSubscribe(a)
    \/ SetConsumerAgent(a)
    \/ SetConsumerGlobalContext(a)

AgentConsumeStep(a) ==
    \/ AgentLoopCondition(a)
    \/ AgentReceive(a)
    \/ AgentSubmit(a)

PoolStep(a) == TaskStart(a) \/ TaskComplete(a)

HookStep ==
    \/ HookSetNotRunning
    \/ HookContextShutdown
    \/ HookPollRead
    \/ AwaitTerminationShutdown
    \/ AwaitTerminationWait
    \/ HookHasSession
    \/ HookCloseSession

\* The startup alone: main and the tasks of the agent pool, with no
\* termination signal.
NextStartup ==
    \/ MainAddShutDownHook
    \/ RunAgentsCheckSession
    \/ RunAgentsBuildConsumers
    \/ \E i \in 1..Len(Agents) : RunAgentsExecute(i)
    \/ MainPrepareContext
    \/ MainServerStart
    \/ \E a \in AgentSet : AgentTaskStart(a)
    \/ \E a \in AgentSet : SetConsumerSubscribe(a)
    \/ \E a \in AgentSet : SetConsumerAgent(a)
    \/ \E a \in AgentSet : SetConsumerGlobalContext(a)
    \/ \E a \in AgentSet : AgentLoopCondition(a)
    \/ \E t \in TopicSet : Produce(t)
    \/ \E a \in AgentSet : AgentReceive(a)
    \/ \E a \in AgentSet : AgentSubmit(a)
    \/ \E a \in AgentSet : TaskStart(a)
    \/ \E a \in AgentSet : TaskComplete(a)

SpecStartup ==
    /\ Init /\ [][NextStartup]_vars
    /\ WF_vars(MainStep)
    /\ \A a \in AgentSet : WF_vars(AgentStartupStep(a))
    /\ \A a \in AgentSet : WF_vars(AgentConsumeStep(a))
    /\ \A a \in AgentSet : WF_vars(PoolStep(a))

\* The daemon without transient errors (no failed backlog read, no failed
\* or crashed task), every thread scheduled fairly.  Producers, the external
\* consumers and the termination signal are the environment's: nothing
\* obliges them to act.
NextDrain ==
    \/ MainAddShutDownHook
    \/ RunAgentsCheckSession
    \/ RunAgentsBuildConsumers
    \/ \E i \in 1..Len(Agents) : RunAgentsExecute(i)
    \/ MainPrepareContext
    \/ MainServerStart
    \/ TerminationSignal
    \/ \E a \in AgentSet : AgentTaskStart(a)
    \/ \E a \in AgentSet : SetConsumerSubscribe(a)
    \/ \E a \in AgentSet : SetConsumerAgent(a)
    \/ \E a \in AgentSet : SetConsumerGlobalContext(a)
    \/ \E a \in AgentSet : AgentLoopCondition(a)
    \/ \E a \in AgentSet : AgentReceive(a)
    \/ \E a \in AgentSet : AgentSubmit(a)
    \/ \E a \in AgentSet : TaskStart(a)
    \/ \E a \in AgentSet : TaskComplete(a)
    \/ \E t \in TopicSet : Produce(t)
    \/ \E t \in TopicSet : HttpRequest(t)
    \/ \E t \in TopicSet : ExternalConsume(t)
    \/ HookSetNotRunning
    \/ HookContextShutdown
    \/ HookPollRead
    \/ AwaitTerminationShutdown
    \/ AwaitTerminationWait
    \/ HookHasSession
    \/ HookCloseSession

SpecDrain ==
    /\ Init /\ [][NextDrain]_vars
    /\ WF_vars(MainStep)
    /\ WF_vars(HookStep)
    /\ \A a \in AgentSet : WF_vars(AgentStartupStep(a))
    /\ \A a \in AgentSet : WF_vars(AgentConsumeStep(a))
    /\ \A a \in AgentSet : WF_vars(PoolStep(a))

\* -------------------------------------------------------- lifecycle state
\* The lifecycle state as the code holds it: isRunning (line 69), the hook's
\* isControlledMsgCounts (lines 147, 157) and the hook's return (line 171).
LifecycleState ==
    IF hookPc = "done" THEN "STOPPED"
    ELSE IF isControlledMsgCounts THEN "TERMINATING"
    ELSE IF ~isRunning THEN "DRAINING"
    ELSE IF listening THEN "RUNNING"
    ELSE "STARTING"

AllowedTransition(from, to) ==
    \/ from = to
    \/ from = "STARTING" /\ to \in {"RUNNING", "DRAINING"}
    \/ from = "RUNNING" /\ to = "DRAINING"
    \/ from = "DRAINING" /\ to = "TERMINATING"
    \/ from = "TERMINATING" /\ to = "STOPPED"

\* ------------------------------------------------------------------ claims

\* C1: the hook leaves DRAINING (sets isControlledMsgCounts, shuts the
\* response pool down, closes the session) only after a poll in which every
\* gated topic's count read exactly 0; a read that returns a nonzero count
\* leaves the hook polling, the pool running and the session untouched.
C1_DrainGate ==
    /\ [](/\ isControlledMsgCounts => \A t \in TopicSet : lastPoll[t] = 0
          /\ (poolState # "running" \/ hist.closeCalls > 0 \/ hookPc = "done")
                => isControlledMsgCounts)
    /\ [][(hookPc = "poll" /\ Backlog(GatedTopics[pollIdx]) # 0)
            => /\ hookPc' = "poll" /\ ~isControlledMsgCounts'
               /\ poolState' = "running" /\ (session' = session)]_vars

\* C1 witness: the gate has opened, and the pool is being shut down, after
\* a message had been on one of the topics and was acknowledged.
C1_Witness ==
    /\ isControlledMsgCounts /\ poolState = "shutdown"
    /\ produced > 0 /\ \A t \in TopicSet : lastPoll[t] = 0 /\ Backlog(t) = 0

\* The daemon was started without a crypto session: there is none, and the
\* hook has not closed one.
NoSessionAtStartup == ~session /\ hist.closeCalls = 0

\* C2: when hasSession() is false at startup, the port is never bound, no
\* agent is scheduled or started and no consumer is registered.
C2_FailFast ==
    NoSessionAtStartup =>
        /\ ~listening /\ contextHandler = "null"
        /\ \A a \in AgentSet : agentPc[a] = "new" /\ agentConsumer[a] = "unset"
        /\ consumers = {}

\* C2 witness: the daemon has gone through its whole shutdown after the
\* failed session check.
C2_Witness == NoSessionAtStartup /\ mainPc = "quitNoSession" /\ hookPc = "done"

C4_GatewayOnlyWhenRunning ==
    (~isRunning /\ hookPc # "checkContext") => ~Serving

\* C5 (as claimed): a message that an agent received after isRunning was
\* set to false is not processed further: the agent holding it adds no task
\* to the response pool.
C5_NoSubmitAfterDraining ==
    [][\A a \in hist.late : pool'[a].queued <= pool[a].queued]_vars

\* C6 (as claimed): when the hook has returned, every submitted task has run
\* to completion and none was interrupted or discarded by shutdownNow().
C6_NoTaskAbandoned == hookPc = "done" => (~hist.forced /\ TotalOutstanding = 0)

\* C8 (as claimed): whenever the gateway is listening, every agent's
\* consumer has been subscribed, given to the agent and registered.
C8_GatewayAfterAgents ==
    listening =>
        \A a \in AgentSet : agentConsumer[a] = "handle" /\ a \in consumers

\* C9 (as claimed): the gateway never serves while an agent's subscription
\* has failed, and no null consumer is given to an agent or registered.
C9_NoPartialService ==
    /\ ~(Serving /\ \E a \in AgentSet : agentPc[a] = "quit")
    /\ \A a \in AgentSet : agentConsumer[a] # "null"

\* C10 (as claimed): after the terminator has been called the process exits
\* without retrying on what the broker reports: a poll of the drain loop that
\* has begun is never given up for a new one.
C10_FatalExitsWithoutWaiting ==
    [][(TerminatorInvoked /\ hookPc = "poll" /\ pollIdx > 1)
         => ~(hookPc' = "poll" /\ pollIdx' = 1)]_vars

\* C11 (as claimed): the gated topics are exactly the agents' topics: every
\* topic whose count the drain poll reads is consumed by exactly one agent of
\* this daemon, every agent's topic is gated, and no two agents share one.
C11_GatedTopicsAreAgentTopics ==
    /\ hookPc = "poll" => Cardinality(AgentsOf(GatedTopics[pollIdx])) = 1
    /\ \A a \in AgentSet : TopicOf(a) \in TopicSet
    /\ \A a, b \in AgentSet : TopicOf(a) = TopicOf(b) => a = b

\* C12 (as claimed): in the step by which the hook leaves DRAINING (line
\* 157), the backlog of every gated topic is 0 in the state it enters.
C12_SimultaneouslyZero ==
    [][(~isControlledMsgCounts /\ isControlledMsgCounts')
          => \A t \in TopicSet : Backlog(t)' = 0]_vars

\* C13: after a drain poll that failed with an exception the hook is polling
\* again from the first topic: it has not left DRAINING, the response pool
\* has not been shut down nor waited for, and closeSession has not been
\* called; the state is one in which the next poll may fail as well.
C13_FailedPollRetries ==
    hist.threw =>
        /\ hookPc = "poll" /\ pollIdx = 1 /\ lastPoll = Unread
        /\ ~isControlledMsgCounts /\ LifecycleState = "DRAINING"
        /\ poolState = "running" /\ hist.await = "none" /\ ~hist.forced
        /\ hist.closeCalls = 0

\* C13 witness: a poll has failed while a task of the response pool was
\* outstanding and the session open; the hook is polling again.
C13_Witness ==
    /\ hist.threw /\ hookPc = "poll"
    /\ TotalOutstanding > 0 /\ session

\* C14: in TERMINATING the pool's shutdown is requested first (only once the
\* drain condition held), the bounded wait follows it, shutdownNow() comes
\* only out of that wait, and hasSession()/closeSession() are reached only
\* after the wait has returned; closeSession() is called only with
\* hasSession() true, and once.
C14_TerminatingOrder ==
    /\ poolState # "running" => isControlledMsgCounts
    /\ hist.await # "none" => poolState # "running"
    /\ poolState = "stopped" => hist.await \in {"timeout", "interrupted"}
    /\ (hookPc \in {"hasSession", "closeSession"} \/ hist.closeCalls > 0)
          => (hist.await # "none" /\ poolState # "running")
    /\ hookPc = "closeSession" => session
    /\ hist.closeCalls <= 1

\* C14 witness: the session has been closed after the wait timed out and the
\* tasks still running were force-terminated.
C14_Witness ==
    /\ hist.closeCalls = 1 /\ ~session
    /\ poolState = "stopped" /\ hist.await = "timeout"

\* C15: shutdownNow() has been called exactly when the bounded wait timed out
\* with tasks outstanding or was interrupted; a wait that ended with every
\* task finished leaves the pool shut down in order with nothing outstanding
\* and nothing force-terminated; and the wait always returns.
C15_ForcedIffWaitFailed ==
    /\ poolState = "stopped" <=> hist.await \in {"timeout", "interrupted"}
    /\ hist.await = "timeout" => hist.forced
    /\ hist.forced => poolState = "stopped"
    /\ hist.await = "finished" =>
          (poolState = "shutdown" /\ ~hist.forced /\ TotalOutstanding = 0)
    /\ hookPc = "await" => ENABLED AwaitTerminationWait

\* C15 witness: both outcomes of the wait; here the one in which a slow task
\* outlives it and is force-terminated.
C15_Witness ==
    /\ hist.await = "timeout" /\ hist.forced /\ poolState = "stopped"
    /\ \E a \in AgentSet : pool[a].running > 0

C17_ConsumersClosedAtStopped ==
    hookPc = "done" =>
        /\ consumers = {}
        /\ \A a \in AgentSet : agentPc[a] \notin {"receive", "submit"}

C20_RegistrationsSerialized ==
    LET registering == {a \in AgentSet : agentPc[a] \in {"setAgent", "register"}}
    IN /\ Cardinality(registering) <= 1
       /\ registering # {} =>
            (hookPc \notin {"poll", "hasSession", "closeSession"} /\ ~Serving)

\* C21: for an agent pool smaller than the number of agents too, every agent
\* is eventually run, subscribes and registers its consumer, unless the
\* startup is aborted through the terminator: a queued agent is delayed, not
\* starved.
AllRegistered ==
    \A a \in AgentSet : a \in consumers /\ agentConsumer[a] = "handle"

C22_CooperativeDrain ==
    hookPc \in {"idle", "setFlag", "checkContext", "poll"}
        => /\ poolState = "running"
           /\ hist.await = "none" /\ ~hist.forced
           /\ hist.closeCalls = 0
           /\ ~isControlledMsgCounts

\* C22 witness: the hook polls while a task of the response pool is running
\* and the session is open.
C22_Witness ==
    /\ hookPc = "poll" /\ ~isRunning
    /\ \E a \in AgentSet : pool[a].running > 0
    /\ poolState = "running" /\ session

\* C23: once the hook polls the backlog, isRunning is false and the servlet
\* context of a started gateway has been shut down, whether main created the
\* context before or after the termination signal.
C23_ContextShutBeforePoll ==
    hookPc \notin {"idle", "setFlag", "checkContext"}
        => /\ ~isRunning
           /\ listening => contextHandler = "shutdown"

\* C25: no agent submits to the response pool after the pool was shut
\* down: an agent's submission finds the pool running.
C25_NoSubmitAfterPoolShutdown ==
    [][\A a \in AgentSet :
          (agentPc[a] = "submit" /\ agentPc'[a] # "submit")
              => poolState = "running"]_vars

\* C26: closeSession is not called while a task of the response pool is
\* still executing, also after the bounded wait timed out and the pool was
\* force-terminated.
C26_NoCloseWhileTaskRuns ==
    [][hist'.closeCalls > hist.closeCalls
          => \A a \in AgentSet : pool[a].running = 0]_vars

\* C27: in STOPPED the crypto session is closed, also when hasSession() or
\* closeSession() threw; the pool's shutdown and the session's close are
\* attempted at most once.
C27_SessionClosedAtStopped ==
    /\ LifecycleState = "STOPPED" => ~session
    /\ hist.closeCalls <= 1

\* C24: under fair scheduling and without transient errors, a shutdown ends
\* when it begins after the last message was produced, with every agent
\* registered and consuming and nothing left on the agents' topics: every
\* gated topic eventually reads 0 and the hook reaches STOPPED.
C24_ShutdownTerminates ==
    (/\ hookPc = "setFlag" /\ produced = MaxProduced
     /\ AllRegistered /\ \A a \in AgentSet : agentPc[a] = "receive"
     /\ \A a \in AgentSet : Backlog(TopicOf(a)) = 0)
        ~> (LifecycleState = "STOPPED")

\* C28: after a failed build or start of the gateway the terminator ends
\* the process or at least its consumption: the daemon does not stay alive
\* with an agent in its receive loop and no listening gateway.  Stated for
\* a failure that happens when the last message produced is waiting on the
\* statusReport topic.
C28_FailedStartExits ==
    (mainPc = "quitServerStart" /\ produced = MaxProduced /\ queue["statusReport"] > 0)
        ~> (Exited \/ \A a \in AgentSet : agentPc[a] \notin {"receive", "submit"})

\* C29: every request path that the serving gateway dispatches to the
\* servlet passes the rate limiter first.
C29_EveryDispatchFiltered ==
    Serving => \A path \in RequestPaths : ServletMatches(path) => FilterMatches(path)

\* C30: reconnectAttempts stays within 0..maxReconnectAttempts; a
\* 'disconnect' event below the maximum adds one attempt and one timeout, a
\* 'disconnect' event at the maximum adds none and triggers
\* 'maxReconnectAttemptsReached'; a 'connect' event resets the counter to 0.
C30_ReconnectBounded ==
    /\ [](reconnectAttempts \in 0..maxReconnectAttempts)
    /\ [][(triggered' # <<>> /\ Head(triggered') = "disconnect")
            => IF reconnectAttempts < maxReconnectAttempts
               THEN /\ reconnectAttempts' = reconnectAttempts + 1
                    /\ reconnectTimers' = reconnectTimers + 1
                    /\ triggered' = <<"disconnect">>
               ELSE /\ reconnectAttempts' = reconnectAttempts
                    /\ reconnectTimers' = reconnectTimers
                    /\ triggered' = <<"disconnect", "maxReconnectAttemptsReached">>]_vars
    /\ [][triggered' = <<"connect">> => reconnectAttempts' = 0]_vars

\* C30 witness: a 'disconnect' event arrived with the counter at its
\* maximum, while a timeout of an earlier attempt is still pending.
C30_Witness ==
    /\ reconnectAttempts = maxReconnectAttempts
    /\ triggered = <<"disconnect", "maxReconnectAttemptsReached">>
    /\ reconnectTimers > 0

\* --------------------------------------------------------- BackendLauncher
\* electron/backend-launcher.js. Node runs start(), stop() and the 'close'
\* handler to completion one at a time; start() has no await.

\* spawn calls whose child the model follows.
MaxSpawns == 7

\* Mutant of BackendStart: without the test of lines 26-29.
BackendStartNoRunningTest(isDev, exists, spawnThrows) ==
    /\ IF ~isDev /\ ~exists
       THEN launcher' = [launcher EXCEPT !.call = "start", !.value = "false"]
       ELSE IF spawnThrows
       THEN launcher' = [launcher EXCEPT !.call = "start", !.value = "false"]
       ELSE /\ launcher.spawned < MaxSpawns
            /\ launcher' = [launcher EXCEPT
                   !.process = launcher.spawned + 1,
                   !.spawned = launcher.spawned + 1,
                   !.live = launcher.live \cup {launcher.spawned + 1},
                   !.isRunning = TRUE,
                   !.call = "start", !.value = "true"]
    /\ UNCHANGED outsideLauncher

\* start(), lines 25-85. isDev is the test of line 33, exists the result of
\* fs.existsSync at line 49, spawnThrows whether spawn throws at line 37 or
\* 54, which leaves this.process unassigned and enters the catch of line 81.
BackendStart(isDev, exists, spawnThrows) ==
    /\ IF launcher.isRunning
       THEN launcher' = [launcher EXCEPT !.call = "start", !.value = "true"]
       ELSE IF ~isDev /\ ~exists
       THEN launcher' = [launcher EXCEPT !.call = "start", !.value = "false"]
       ELSE IF spawnThrows
       THEN launcher' = [launcher EXCEPT !.call = "start", !.value = "false"]
       ELSE /\ launcher.spawned < MaxSpawns
            /\ launcher' = [launcher EXCEPT
                   !.process = launcher.spawned + 1,
                   !.spawned = launcher.spawned + 1,
                   !.live = launcher.live \cup {launcher.spawned + 1},
                   !.isRunning = TRUE,
                   !.call = "start", !.value = "true"]
    /\ UNCHANGED outsideLauncher

\* stop(), lines 87-98: kill() signals the child; a throw of kill() is
\* caught at line 95.
BackendStop(killThrows) ==
    /\ IF ~launcher.isRunning \/ launcher.process = 0
       THEN launcher' = [launcher EXCEPT !.call = "stop", !.value = "none"]
       ELSE launcher' = [launcher EXCEPT
                !.killed = IF killThrows THEN launcher.killed
                           ELSE launcher.killed \cup {launcher.process},
                !.call = "stop", !.value = "none"]
    /\ UNCHANGED outsideLauncher

\* The 'close' event of child c, whose handler lines 74-78 registered: the
\* child has exited, after a kill or on its own.
BackendClose(c) ==
    /\ c \in launcher.live
    /\ launcher' = [launcher EXCEPT
           !.live = launcher.live \ {c},
           !.killed = launcher.killed \ {c},
           !.isRunning = FALSE,
           !.process = 0,
           !.call = "close", !.value = "none"]
    /\ UNCHANGED outsideLauncher

NextLauncher ==
    \/ \E isDev \in BOOLEAN, exists \in BOOLEAN, spawnThrows \in BOOLEAN :
          BackendStart(isDev, exists, spawnThrows)
    \/ \E killThrows \in BOOLEAN : BackendStop(killThrows)
    \/ \E c \in 1..MaxSpawns : BackendClose(c)

SpecLauncher == Init /\ [][NextLauncher]_vars

\* -------------------------------------------------------------- EventUtils
\* frontend/static/js/utils/event.utils.js.

\* Observers of one event type that the model follows.
MaxObservers == 2

\* Array.prototype.filter with the test of line 45.
RECURSIVE FilterOut(_, _)
FilterOut(obs, callback) ==
    IF obs = <<>> THEN <<>>
    ELSE IF Head(obs) # callback
    THEN <<Head(obs)>> \o FilterOut(Tail(obs), callback)
    ELSE FilterOut(Tail(obs), callback)

\* The forEach of lines 59-65: every element is called in order; a throw is
\* caught and logged, and the loop goes on.
RECURSIVE CallEach(_)
CallEach(obs) ==
    IF obs = <<>> THEN [invoked |-> <<>>, errors |-> 0]
    ELSE LET rest == CallEach(Tail(obs))
         IN  [invoked |-> <<Head(obs)>> \o rest.invoked,
              errors |-> rest.errors
                         + (IF Head(obs) \in ThrowingCallbacks THEN 1 ELSE 0)]

\* subscribe(eventType, callback), lines 17-32.
Subscribe(eventType, callback) ==
    /\ Len(eventUtils.observers[eventType]) < MaxObservers
    /\ eventUtils' = [eventUtils EXCEPT
           !.defined = eventUtils.defined \cup {eventType},
           !.observers[eventType] = Append(eventUtils.observers[eventType], callback),
           !.invoked = <<>>, !.errors = 0,
           !.call = "subscribe", !.eventType = eventType, !.callback = callback]
    /\ UNCHANGED outsideEventUtils

\* unsubscribe(eventType, callback), lines 39-47, which the handle of line
\* 27 calls with the arguments of its subscribe.
Unsubscribe(eventType, callback) ==
    /\ eventUtils' = [eventUtils EXCEPT
           !.observers[eventType] =
               IF eventType \notin eventUtils.defined
               THEN eventUtils.observers[eventType]
               ELSE FilterOut(eventUtils.observers[eventType], callback),
           !.invoked = <<>>, !.errors = 0,
           !.call = "unsubscribe", !.eventType = eventType, !.callback = callback]
    /\ UNCHANGED outsideEventUtils

\* publish(eventType, data), lines 54-66.
Publish(eventType) ==
    /\ LET run == IF eventType \notin eventUtils.defined
                  THEN [invoked |-> <<>>, errors |-> 0]
                  ELSE CallEach(eventUtils.observers[eventType])
       IN  eventUtils' = [eventUtils EXCEPT
               !.invoked = run.invoked, !.errors = run.errors,
               !.call = "publish", !.eventType = eventType, !.callback = "none"]
    /\ UNCHANGED outsideEventUtils

NextEventUtils ==
    \/ \E eventType \in EventTypes, callback \in Callbacks :
          Subscribe(eventType, callback)
    \/ \E eventType \in EventTypes, callback \in Callbacks :
          Unsubscribe(eventType, callback)
    \/ \E eventType \in EventTypes : Publish(eventType)

SpecEventUtils == Init /\ [][NextEventUtils]_vars

\* The number of subscriptions of the callback in a list of observers.
RECURSIVE CountOf(_, _)
CountOf(obs, callback) ==
    IF obs = <<>> THEN 0
    ELSE (IF Head(obs) = callback THEN 1 ELSE 0) + CountOf(Tail(obs), callback)

\* ------------------------------------------------------------- LoadingPage
\* frontend/static/js/loading.js. The browser runs one handler or timer
\* callback at a time. The server is not part of the page: it may deliver
\* any of the events the page listens to while the socket is connected.

\* let maxReconnectAttempts = 3, line 30.
LoadingMaxReconnectAttempts == 3

\* Requests to POST /api/sessions in flight that the model follows.
MaxFetches == 1

\* Pending timers of one kind.
PendingTimers(current, stale) == stale + (IF current THEN 1 ELSE 0)

\* connectToServer, lines 49-167, applied to the page p. socket.disconnect()
\* on a connected socket emits its 'disconnect' event at once, whose handler
\* is lines 91-95; setTimeout at line 62 overwrites connectionTimeoutId
\* without clearing the timer it named.
ConnectToServer(p) ==
    LET closed == IF p.socket = "connected"
                  THEN [p EXCEPT !.connection = "error", !.errorShown = TRUE]
                  ELSE [p EXCEPT !.connection = "connecting"]
    IN  [closed EXCEPT
            !.socket = "connecting",
            !.staleConnectionTimers =
                PendingTimers(p.connectionTimer, p.staleConnectionTimers),
            !.connectionTimer = TRUE]

\* init(), lines 36-44, on DOMContentLoaded (line 329).
LoadingInit ==
    /\ ~loadingPage.started
    /\ loadingPage' = [ConnectToServer(loadingPage) EXCEPT
                          !.started = TRUE, !.handler = "init"]
    /\ UNCHANGED outsideLoadingPage

\* A connection timeout fires, lines 62-70: the timer that
\* connectionTimeoutId names, or a stale one.
ConnectionTimeout(stale) ==
    /\ loadingPage.redirect # "done"
    /\ IF stale THEN loadingPage.staleConnectionTimers > 0
                ELSE loadingPage.connectionTimer
    /\ LET fired == IF stale
                    THEN [loadingPage EXCEPT !.staleConnectionTimers = @ - 1]
                    ELSE [loadingPage EXCEPT !.connectionTimer = FALSE]
       IN  loadingPage' =
             IF fired.reconnectAttempts < LoadingMaxReconnectAttempts
             THEN [ConnectToServer([fired EXCEPT
                                       !.reconnectAttempts = @ + 1,
                                       !.reinvocations = @ + 1])
                      EXCEPT !.handler = "connectionTimeout"]
             ELSE [fired EXCEPT !.errorShown = TRUE,
                                !.handler = "connectionTimeout"]
    /\ UNCHANGED outsideLoadingPage

\* The 'connect' handler, lines 73-78, with createSession, lines 172-206, up
\* to the start of the request. Socket.IO connects a new socket and
\* reconnects one that lost its connection.
LoadingOnConnect ==
    /\ loadingPage.redirect # "done"
    /\ loadingPage.socket \in {"connecting", "disconnected"}
    /\ loadingPage.fetches < MaxFetches
    /\ PendingTimers(loadingPage.sessionTimer, loadingPage.staleSessionTimers)
          < MaxPendingTimers
    /\ loadingPage' = [loadingPage EXCEPT
           !.socket = "connected",
           !.connectionTimer = FALSE,
           !.connection = "success",
           !.session = "loading",
           !.staleSessionTimers =
               PendingTimers(loadingPage.sessionTimer, loadingPage.staleSessionTimers),
           !.sessionTimer = TRUE,
           !.fetches = @ + 1,
           !.everConnected = TRUE,
           !.handler = "connect"]
    /\ UNCHANGED outsideLoadingPage

\* The 'connect_error' handler, lines 80-89.
LoadingOnConnectError ==
    /\ loadingPage.redirect # "done"
    /\ loadingPage.socket \in {"connecting", "disconnected"}
    /\ loadingPage' =
         IF loadingPage.reconnectAttempts < LoadingMaxReconnectAttempts
         THEN [loadingPage EXCEPT !.reconnectAttempts = @ + 1,
                                  !.handler = "connect_error"]
         ELSE [loadingPage EXCEPT !.connectionTimer = FALSE,
                                  !.errorShown = TRUE,
                                  !.handler = "connect_error"]
    /\ UNCHANGED outsideLoadingPage

\* The 'disconnect' handler, lines 91-95, when the connection is lost.
LoadingOnDisconnect ==
    /\ loadingPage.redirect # "done"
    /\ loadingPage.socket = "connected"
    /\ loadingPage' = [loadingPage EXCEPT
           !.socket = "disconnected",
           !.connection = "error",
           !.errorShown = TRUE,
           !.handler = "disconnect"]
    /\ UNCHANGED outsideLoadingPage

\* A session timeout fires, lines 176-179.
SessionTimeout(stale) ==
    /\ loadingPage.redirect # "done"
    /\ IF stale THEN loadingPage.staleSessionTimers > 0
                ELSE loadingPage.sessionTimer
    /\ LET fired == IF stale
                    THEN [loadingPage EXCEPT !.staleSessionTimers = @ - 1]
                    ELSE [loadingPage EXCEPT !.sessionTimer = FALSE]
       IN  loadingPage' = [fired EXCEPT !.session = "error",
                                        !.errorShown = TRUE,
                                        !.handler = "sessionTimeout"]
    /\ UNCHANGED outsideLoadingPage

\* The request of line 182 settles, lines 185-205: with a session id the
\* page emits 'join_session' on the socket, otherwise the catch runs.
FetchSettles(ok) ==
    /\ loadingPage.redirect # "done"
    /\ loadingPage.fetches > 0
    /\ loadingPage' =
         IF ok
         THEN [loadingPage EXCEPT !.fetches = @ - 1, !.handler = "fetch"]
         ELSE [loadingPage EXCEPT !.fetches = @ - 1,
                                  !.sessionTimer = FALSE,
                                  !.session = "error",
                                  !.errorShown = TRUE,
                                  !.handler = "fetch"]
    /\ UNCHANGED outsideLoadingPage

\* The 'session_joined' handler, lines 98-110, with checkModelStatus, lines
\* 211-222.
LoadingOnSessionJoined(success) ==
    /\ loadingPage.redirect # "done"
    /\ loadingPage.socket = "connected"
    /\ success => PendingTimers(loadingPage.modelTimer, loadingPage.staleModelTimers)
                     < MaxPendingTimers
    /\ loadingPage' =
         IF success
         THEN [loadingPage EXCEPT
                  !.sessionTimer = FALSE,
                  !.session = "success",
                  !.model = "loading",
                  !.staleModelTimers =
                      PendingTimers(loadingPage.modelTimer, loadingPage.staleModelTimers),
                  !.modelTimer = TRUE,
                  !.everJoined = TRUE,
                  !.handler = "session_joined"]
         ELSE [loadingPage EXCEPT
                  !.sessionTimer = FALSE,
                  !.session = "error",
                  !.errorShown = TRUE,
                  !.handler = "session_joined"]
    /\ UNCHANGED outsideLoadingPage

\* A model timeout fires, lines 215-218.
ModelTimeout(stale) ==
    /\ loadingPage.redirect # "done"
    /\ IF stale THEN loadingPage.staleModelTimers > 0
                ELSE loadingPage.modelTimer
    /\ LET fired == IF stale
                    THEN [loadingPage EXCEPT !.staleModelTimers = @ - 1]
                    ELSE [loadingPage EXCEPT !.modelTimer = FALSE]
       IN  loadingPage' = [fired EXCEPT !.model = "error",
                                        !.errorShown = TRUE,
                                        !.handler = "modelTimeout"]
    /\ UNCHANGED outsideLoadingPage

\* Lines 119-129 and 143-153: with a main element the redirect waits for the
\* timer of 800 ms, without one it happens at once.
Redirect(p, hasMain) ==
    IF p.redirect = "done" THEN p
    ELSE [p EXCEPT !.redirect = IF hasMain THEN "scheduled" ELSE "done"]

\* The 'model_initialized' handler, lines 113-135.
LoadingOnModelInitialized(success, hasMain) ==
    /\ loadingPage.redirect # "done"
    /\ loadingPage.socket = "connected"
    /\ loadingPage' =
         IF success
         THEN [Redirect([loadingPage EXCEPT !.modelTimer = FALSE,
                                            !.model = "success"], hasMain)
                  EXCEPT !.handler = "model_initialized"]
         ELSE [loadingPage EXCEPT !.modelTimer = FALSE,
                                  !.model = "error",
                                  !.errorShown = TRUE,
                                  !.handler = "model_initialized"]
    /\ UNCHANGED outsideLoadingPage

\* The 'model_status' handler, lines 138-155.
LoadingOnModelStatus(status, hasMain) ==
    /\ loadingPage.redirect # "done"
    /\ loadingPage.socket = "connected"
    /\ loadingPage' =
         IF status = "loading"
         THEN [loadingPage EXCEPT !.model = "loading", !.handler = "model_status"]
         ELSE IF status = "success"
         THEN [Redirect([loadingPage EXCEPT !.model = "success"], hasMain)
                  EXCEPT !.handler = "model_status"]
         ELSE [loadingPage EXCEPT !.handler = "model_status"]
    /\ UNCHANGED outsideLoadingPage

\* The 'error' and 'maxReconnectAttemptsReached' handlers, lines 158-166.
LoadingOnError ==
    /\ loadingPage.redirect # "done"
    /\ loadingPage.socket = "connected"
    /\ loadingPage' = [loadingPage EXCEPT !.errorShown = TRUE, !.handler = "error"]
    /\ UNCHANGED outsideLoadingPage

\* The timer of lines 123-125 or 147-149 fires.
FadeTimeout ==
    /\ loadingPage.redirect = "scheduled"
    /\ loadingPage' = [loadingPage EXCEPT !.redirect = "done", !.handler = "fade"]
    /\ UNCHANGED outsideLoadingPage

\* retry(), lines 310-326, the click handler of the retry button (line 40),
\* which the error container shows.
LoadingRetry ==
    /\ loadingPage.redirect # "done"
    /\ loadingPage.started
    /\ loadingPage.errorShown
    /\ PendingTimers(loadingPage.connectionTimer, loadingPage.staleConnectionTimers)
          < MaxPendingTimers
    /\ loadingPage' =
         [ConnectToServer([loadingPage EXCEPT
                              !.errorShown = FALSE,
                              !.session = "waiting",
                              !.model = "waiting",
                              !.reconnectAttempts = 0,
                              !.reinvocations = 0])
             EXCEPT !.handler = "retry"]
    /\ UNCHANGED outsideLoadingPage

NextLoadingPage ==
    \/ LoadingInit
    \/ \E stale \in BOOLEAN : ConnectionTimeout(stale)
    \/ LoadingOnConnect
    \/ LoadingOnConnectError
    \/ LoadingOnDisconnect
    \/ \E stale \in BOOLEAN : SessionTimeout(stale)
    \/ \E ok \in BOOLEAN : FetchSettles(ok)
    \/ \E success \in BOOLEAN : LoadingOnSessionJoined(success)
    \/ \E stale \in BOOLEAN : ModelTimeout(stale)
    \/ \E success \in BOOLEAN, hasMain \in BOOLEAN :
          LoadingOnModelInitialized(success, hasMain)
    \/ \E status \in {"loading", "success", "error"}, hasMain \in BOOLEAN :
          LoadingOnModelStatus(status, hasMain)
    \/ LoadingOnError
    \/ FadeTimeout
    \/ LoadingRetry

SpecLoadingPage == Init /\ [][NextLoadingPage]_vars

\* --------------------------------------------------------------- script.js
\* frontend/static/js/script.js (the version with reconnection). The model
\* follows the socket that the variable socket refers to; the server may
\* deliver any event the page listens to while that socket is connected.

\* const maxReconnectAttempts = 5, line 8.
ScriptMaxReconnectAttempts == 5

\* Characters of the message input that the model follows.
MaxInputLen == 2

InputChars == {" ", "a"}

RECURSIVE InputsOfLength(_)
InputsOfLength(n) ==
    IF n = 0 THEN {<<>>}
    ELSE {Append(text, c) : text \in InputsOfLength(n - 1), c \in InputChars}

Inputs == UNION {InputsOfLength(n) : n \in 0..MaxInputLen}

\* String.prototype.trim, line 150.
RECURSIVE TrimStart(_)
TrimStart(text) ==
    IF text # <<>> /\ Head(text) = " " THEN TrimStart(Tail(text)) ELSE text

RECURSIVE TrimEnd(_)
TrimEnd(text) ==
    IF text # <<>> /\ text[Len(text)] = " "
    THEN TrimEnd(SubSeq(text, 1, Len(text) - 1)) ELSE text

Trim(text) == TrimEnd(TrimStart(text))

\* connectSocket, lines 37-133, applied to the page state p.
ConnectSocket(p) ==
    IF p.socket = "connected" THEN p ELSE [p EXCEPT !.socket = "connecting"]

\* initApp, lines 20-34, on DOMContentLoaded (line 397), with the request
\* of line 23 settled.
InitApp(ok) ==
    /\ ~script.started
    /\ script' =
         IF ok
         THEN [ConnectSocket([script EXCEPT !.sessionId = "s1"])
                  EXCEPT !.started = TRUE, !.emitted = <<>>, !.handler = "initApp"]
         ELSE [script EXCEPT !.started = TRUE, !.emitted = <<>>,
                             !.handler = "initApp"]
    /\ UNCHANGED outsideScript

\* The user edits the message input.
TypeInput(text) ==
    /\ script.started
    /\ script.input # text
    /\ script' = [script EXCEPT !.input = text, !.emitted = <<>>,
                                !.handler = "input"]
    /\ UNCHANGED outsideScript

\* sendMessage, lines 149-170, the handler of the send button and of Enter.
ScriptSendMessage ==
    /\ script.started
    /\ script' =
         IF Trim(script.input) = <<>> \/ script.isProcessing
         THEN [script EXCEPT !.emitted = <<>>, !.handler = "sendMessage"]
         ELSE IF script.socket # "connected"
         THEN [ConnectSocket(script) EXCEPT !.emitted = <<>>,
                                            !.handler = "sendMessage"]
         ELSE [script EXCEPT
                  !.input = <<>>,
                  !.emitted = <<[event |-> "user_message",
                                 session_id |-> script.sessionId]>>,
                  !.handler = "sendMessage"]
    /\ UNCHANGED outsideScript

\* The 'connect' handler, lines 47-51. Socket.IO connects a new socket and
\* reconnects one that lost its connection.
ScriptOnConnect ==
    /\ script.socket \in {"connecting", "disconnected"}
    /\ script' = [script EXCEPT
           !.socket = "connected",
           !.reconnectAttempts = 0,
           !.emitted = <<[event |-> "join_session",
                          session_id |-> script.sessionId]>>,
           !.handler = "connect"]
    /\ UNCHANGED outsideScript

\* The 'message_received' handler, lines 61-70.
ScriptOnMessageReceived(processing) ==
    /\ script.socket = "connected"
    /\ script' =
         IF processing
         THEN [script EXCEPT !.isProcessing = TRUE,
                             !.currentStreamingMessage = "empty",
                             !.emitted = <<>>, !.handler = "message_received"]
         ELSE [script EXCEPT !.emitted = <<>>, !.handler = "message_received"]
    /\ UNCHANGED outsideScript

\* The 'assistant_chunk' handler, lines 73-81, for a chunk with content.
ScriptOnAssistantChunk ==
    /\ script.socket = "connected"
    /\ script' =
         IF script.currentStreamingMessage # "null"
         THEN [script EXCEPT !.currentStreamingMessage = "text",
                             !.emitted = <<>>, !.handler = "assistant_chunk"]
         ELSE [script EXCEPT !.emitted = <<>>, !.handler = "assistant_chunk"]
    /\ UNCHANGED outsideScript

\* The 'assistant_response' handler, lines 84-96.
ScriptOnAssistantResponse(complete) ==
    /\ script.socket = "connected"
    /\ script' = [script EXCEPT
           !.isProcessing = FALSE,
           !.currentStreamingMessage = IF complete THEN "null" ELSE @,
           !.emitted = <<>>, !.handler = "assistant_response"]
    /\ UNCHANGED outsideScript

\* The 'assistant_response_complete' handler, lines 99-119.
ScriptOnResponseComplete ==
    /\ script.socket = "connected"
    /\ script' = [script EXCEPT
           !.isProcessing = FALSE,
           !.currentStreamingMessage = "null",
           !.emitted = <<>>, !.handler = "assistant_response_complete"]
    /\ UNCHANGED outsideScript

\* The 'error' handler, lines 121-126.
ScriptOnError ==
    /\ script.socket = "connected"
    /\ script' = [script EXCEPT
           !.isProcessing = FALSE,
           !.currentStreamingMessage = "null",
           !.emitted = <<>>, !.handler = "error"]
    /\ UNCHANGED outsideScript

\* The 'disconnect' handler, lines 128-132, with tryReconnect, lines
\* 136-146.
ScriptOnDisconnect ==
    /\ script.socket = "connected"
    /\ script.reconnectAttempts < ScriptMaxReconnectAttempts
          => script.reconnectTimers < MaxPendingTimers
    /\ script' =
         IF script.reconnectAttempts < ScriptMaxReconnectAttempts
         THEN [script EXCEPT !.socket = "disconnected",
                             !.reconnectAttempts = @ + 1,
                             !.reconnectTimers = @ + 1,
                             !.emitted = <<>>, !.handler = "disconnect"]
         ELSE [script EXCEPT !.socket = "disconnected",
                             !.emitted = <<>>, !.handler = "disconnect"]
    /\ UNCHANGED outsideScript

\* The timer of lines 140-142 fires.
ScriptReconnectTimeout ==
    /\ script.reconnectTimers > 0
    /\ script' = [ConnectSocket([script EXCEPT !.reconnectTimers = @ - 1])
                     EXCEPT !.emitted = <<>>, !.handler = "reconnectTimeout"]
    /\ UNCHANGED outsideScript

NextScript ==
    \/ \E ok \in BOOLEAN : InitApp(ok)
    \/ \E text \in Inputs : TypeInput(text)
    \/ ScriptSendMessage
    \/ ScriptOnConnect
    \/ \E processing \in BOOLEAN : ScriptOnMessageReceived(processing)
    \/ ScriptOnAssistantChunk
    \/ \E complete \in BOOLEAN : ScriptOnAssistantResponse(complete)
    \/ ScriptOnResponseComplete
    \/ ScriptOnError
    \/ ScriptOnDisconnect
    \/ ScriptReconnectTimeout

SpecScript == Init /\ [][NextScript]_vars

\* C31: whenever a step leaves the socket connected with a session id set,
\* and the step is the 'connect' event or a setSessionId call, it emits
\* 'join_session' for the current session id: setSessionId emits it on a
\* connected socket, and every connect and reconnect emits it again.
C31_JoinsSession ==
    [][(/\ socket' = "connected" /\ sessionId' # "null"
        /\ (triggered' = <<"connect">> \/ returned'.call = "setSessionId"))
          => emitted' = <<[event |-> "join_session", session_id |-> sessionId']>>]_vars

\* C31 witness: a reconnect after a disconnect has joined the session that
\* was set while the socket was disconnected.
C31_Witness ==
    /\ triggered = <<"connect">> /\ socket = "connected"
    /\ reconnectTimers > 0 /\ sessionId = "s2"
    /\ emitted = <<[event |-> "join_session", session_id |-> "s2"]>>

\* C32: emit, sendMessage and sendProjectUpdate return true exactly when
\* they emitted, which they do on a connected socket only; sendMessage and
\* sendProjectUpdate return false without a session id; a call that returns
\* false leaves the service's state as it was.
SendCalls == {"emit", "sendMessage", "sendProjectUpdate"}

C32_EmitResult ==
    [][returned'.call \in SendCalls
          => /\ returned'.value \in {"true", "false"}
             /\ returned'.value = "true" <=> emitted' # <<>>
             /\ returned'.value = "true" => socket = "connected"
             /\ (returned'.call = "emit" /\ socket = "connected")
                   => returned'.value = "true"
             /\ (returned'.call # "emit" /\ sessionId = "null")
                   => returned'.value = "false"
             /\ UNCHANGED <<socket, sessionId, reconnectAttempts, reconnectTimers>>]_vars

\* C32 witness: sendMessage returned false on a disconnected socket although
\* a session id is set.
C32_Witness ==
    /\ returned = [call |-> "sendMessage", value |-> "false"]
    /\ sessionId # "null" /\ socket = "disconnected" /\ emitted = <<>>

\* C33: isRunning is true exactly when process is non-null and at most one
\* child is alive, the one process refers to; start() while running returns
\* true without spawning; start() that returns false leaves isRunning false
\* and spawns nothing; a 'close' leaves isRunning false and process null;
\* stop() when not running changes nothing; a start() after a 'close'
\* spawns again.
C33_AtMostOneBackend ==
    /\ [](/\ launcher.isRunning <=> launcher.process # 0
          /\ launcher.live = IF launcher.process = 0 THEN {} ELSE {launcher.process})
    /\ [][/\ (launcher'.call = "start" /\ launcher.isRunning)
               => /\ launcher'.value = "true"
                  /\ launcher' = [launcher EXCEPT !.call = "start", !.value = "true"]
          /\ (launcher'.call = "start" /\ launcher'.value = "false")
               => /\ ~launcher'.isRunning
                  /\ launcher'.spawned = launcher.spawned
          /\ (launcher'.call = "start" /\ ~launcher.isRunning
                 /\ launcher'.value = "true")
               => /\ launcher'.spawned = launcher.spawned + 1
                  /\ launcher'.isRunning
          /\ launcher'.call = "close"
               => ~launcher'.isRunning /\ launcher'.process = 0
          /\ (launcher'.call = "stop" /\ ~launcher.isRunning)
               => launcher' = [launcher EXCEPT !.call = "stop", !.value = "none"]
         ]_vars

\* C33 witness: a second child runs after the first one was stopped and
\* closed, and a start() while it runs has returned true.
C33_Witness ==
    /\ launcher.spawned = 2 /\ launcher.process = 2 /\ launcher.live = {2}
    /\ launcher.isRunning
    /\ launcher.call = "start" /\ launcher.value = "true"

\* C34: publish calls every subscription of the event type once, in the
\* order of subscription, throwing callbacks included; the unsubscribe of
\* the handle of a live subscription removes that one subscription and no
\* other.
C34_PublishAndUnsubscribe ==
    [][/\ eventUtils'.call = "publish"
            => eventUtils'.invoked = eventUtils.observers[eventUtils'.eventType]
       /\ (/\ eventUtils'.call = "unsubscribe"
           /\ CountOf(eventUtils.observers[eventUtils'.eventType],
                      eventUtils'.callback) > 0)
            => \A t \in EventTypes, c \in Callbacks :
                  CountOf(eventUtils'.observers[t], c) =
                      CountOf(eventUtils.observers[t], c)
                      - (IF t = eventUtils'.eventType /\ c = eventUtils'.callback
                         THEN 1 ELSE 0)
      ]_vars

\* C35: the page creates a session only after the 'connect' handler ran,
\* starts the model step only after a 'session_joined' with status success,
\* and redirects only after both have happened, whatever model events the
\* server delivers.
C35_StepsInOrder ==
    /\ (loadingPage.fetches > 0 \/ loadingPage.sessionTimer
           \/ loadingPage.staleSessionTimers > 0) => loadingPage.everConnected
    /\ (loadingPage.modelTimer \/ loadingPage.staleModelTimers > 0)
          => loadingPage.everJoined
    /\ loadingPage.redirect # "none"
          => loadingPage.everConnected /\ loadingPage.everJoined

\* C36: the connection timeout calls connectToServer again at most
\* maxReconnectAttempts times after init() or retry(); at the maximum a
\* timeout or connect_error shows the error and sets no timer; at most one
\* connection timeout is pending.
C36_RetriesBounded ==
    /\ [](/\ loadingPage.reinvocations <= LoadingMaxReconnectAttempts
          /\ loadingPage.reconnectAttempts <= LoadingMaxReconnectAttempts
          /\ PendingTimers(loadingPage.connectionTimer,
                           loadingPage.staleConnectionTimers) <= 1)
    /\ [][(/\ loadingPage.reconnectAttempts = LoadingMaxReconnectAttempts
           /\ loadingPage'.handler \in {"connectionTimeout", "connect_error"})
            => /\ loadingPage'.errorShown
               /\ PendingTimers(loadingPage'.connectionTimer,
                                loadingPage'.staleConnectionTimers)
                    <= PendingTimers(loadingPage.connectionTimer,
                                     loadingPage.staleConnectionTimers)
               /\ loadingPage'.reinvocations = loadingPage.reinvocations]_vars

\* C37: 'user_message' is emitted only for a non-empty trimmed input while
\* isProcessing is false and the socket is connected; and each continuation
\* after 'message_received' leaves isProcessing false: assistant_response,
\* assistant_response_complete, error, and the connect that follows a
\* disconnect.
C37_SendGuardedAndProcessingEnds ==
    [][/\ (script'.emitted # <<>> /\ script'.emitted[1].event = "user_message")
            => /\ Trim(script.input) # <<>>
               /\ ~script.isProcessing
               /\ script.socket = "connected"
       /\ script'.handler \in {"assistant_response", "assistant_response_complete",
                               "error", "connect"}
            => ~script'.isProcessing
      ]_vars

====
